---- MODULE Spec2Model ----
(***************************************************************************)
(* Client-side synchronisation engine of the portfolio page.               *)
(*                                                                         *)
(* The repository holds two builds of the page script that carry the       *)
(* equity-history logic:                                                   *)
(*   - src/unnamed/part_002        (day-keyed merge, upsertChartPoint,     *)
(*                                  handleProcess)        suffix  P        *)
(*   - src/portfolio_app/script.js (filter + sort, in-place chart update,  *)
(*                                  handle(force))        suffix  S        *)
(* Definitions without a suffix model code that is the same in both.       *)
(***************************************************************************)
EXTENDS Integers, Sequences, FiniteSets, TLC

(***************************************************************************)
(* Bounds of the model.                                                    *)
(***************************************************************************)
MaxDay == 2
MaxRows == 3
MaxInFlight == 2
Max401 == 2

\* the ticker field holds at most MaxTicker characters
MaxTicker == 3

\* the user answers at most MaxPrompts prompts for the starting cash
MaxPrompts == 2

\* the payload that is loaded again and again has at most MaxReloadRows rows
MaxReloadRows == 2

(***************************************************************************)
(* Values.                                                                 *)
(*                                                                         *)
(* A date field of a history row is a JavaScript value.  Four shapes are   *)
(* told apart by the code:                                                 *)
(*   "day"   the string 'YYYY-MM-DD' of calendar day d                     *)
(*   "stamp" a string 'YYYY-MM-DDThh:mm:ss' of calendar day d              *)
(*   "junk"  a non-empty string that no Date parse accepts ('n/a')         *)
(*   "none"  the empty string or a value that is not a string              *)
(* An equity field converts (Number(.)) to a finite number or to NaN,      *)
(* written NotANumber.  The code only passes finite equities on, so two    *)
(* of them are enough to tell one row's value from another's.              *)
(***************************************************************************)
NotANumber == -1

Days == 1..MaxDay

DayStr(d) == [k |-> "day", d |-> d]

StampStr(d) == [k |-> "stamp", d |-> d]

JunkStr == [k |-> "junk", d |-> 0]

NoStr == [k |-> "none", d |-> 0]

DateValues == {DayStr(d) : d \in Days} \cup {StampStr(d) : d \in Days} \cup {JunkStr, NoStr}

FiniteEquities == {100, 105}

EquityValues == FiniteEquities \cup {NotANumber}

Rows == [date : DateValues, equity : EquityValues]

Payloads == UNION {[1..n -> Rows] : n \in 0..MaxRows}

\* Number.isFinite(y)
IsFinite(y) == y # NotANumber

\* s.slice(0, 10) of a date string; '' stands for "no day"
Slice10(s) ==
  CASE s.k = "day" -> s
    [] s.k = "stamp" -> DayStr(s.d)
    [] s.k = "junk" -> s
    [] OTHER -> NoStr

\* !Number.isNaN(new Date(s).getTime()) for a string held as a point's x
ValidDate(s) == s.k \in {"day", "stamp"}

(***************************************************************************)
(* Array.prototype.sort as the two builds use it.                          *)
(***************************************************************************)
Front(s) == SubSeq(s, 1, Len(s) - 1)

Last(s) == s[Len(s)]

\* the ways to reorder s
Reorderings(s) == {[i \in 1..Len(s) |-> s[f[i]]] : f \in Permutations(1..Len(s))}

\* new Date(p.x) of a point whose x is a valid date string, as a day number
TimeOfStr(p) == p.x.d

\* t is sorted by day; p goes after every element that is not later than it
InsertByDateStr(t, p) ==
  LET n == Cardinality({i \in 1..Len(t) : TimeOfStr(t[i]) <= TimeOfStr(p)})
  IN SubSeq(t, 1, n) \o <<p>> \o SubSeq(t, n + 1, Len(t))

\* the stable ascending sort (ECMAScript 2019 sort is stable) of points whose
\* x are valid date strings
RECURSIVE StableSortStr(_)
StableSortStr(s) ==
  IF s = <<>> THEN <<>> ELSE InsertByDateStr(StableSortStr(Front(s)), Last(s))

\* data.sort((a, b) => new Date(a.x) - new Date(b.x)) on points whose x is a
\* string.  The comparator is NaN (read as +0) when either date is invalid.
\* With no invalid date it is a consistent comparator: the sort is the stable
\* sort by day.  With an invalid date and at most one valid day every pair
\* compares equal: the order is kept.  With an invalid date and two different
\* valid days "equal" is not transitive, the comparator is not consistent and
\* the order is implementation-defined: any reordering.
SortByDateStrP(s) ==
  LET bad == {i \in 1..Len(s) : ~ValidDate(s[i].x)}
      days == {s[i].x.d : i \in (1..Len(s)) \ bad}
  IN IF bad = {} THEN {StableSortStr(s)}
     ELSE IF Cardinality(days) <= 1 THEN {s}
     ELSE Reorderings(s)

\* t is sorted by time; p goes after every element that is not later than it
InsertByDate(t, p) ==
  LET n == Cardinality({i \in 1..Len(t) : t[i].x <= p.x})
  IN SubSeq(t, 1, n) \o <<p>> \o SubSeq(t, n + 1, Len(t))

\* points.sort((a, b) => a.x - b.x) on points whose x is a valid Date: the
\* stable ascending sort
RECURSIVE SortByDateS(_)
SortByDateS(s) ==
  IF s = <<>> THEN <<>> ELSE InsertByDate(SortByDateS(Front(s)), Last(s))

(***************************************************************************)
(* The merge step of loadEquityChart, build P.                             *)
(***************************************************************************)
\* a Map whose set leaves the value of a key it already holds: the first
\* row of a day would win
MapSetKeepsFirst(m, key, val) ==
  IF \E i \in 1..Len(m) : m[i].x = key
  THEN m
  ELSE Append(m, [x |-> key, y |-> val])

\* Map.prototype.set on an insertion-ordered Map, held as a sequence of points
MapSet(m, key, val) ==
  IF \E i \in 1..Len(m) : m[i].x = key
  THEN [i \in 1..Len(m) |-> IF m[i].x = key THEN [x |-> key, y |-> val] ELSE m[i]]
  ELSE Append(m, [x |-> key, y |-> val])

\* const day = typeof d.date === 'string' ? d.date.slice(0,10) : ''
DayKeyP(d) == IF d.date.k = "none" THEN NoStr ELSE Slice10(d.date)

\* if (day && Number.isFinite(val))
KeepsRowP(d) == DayKeyP(d) # NoStr /\ IsFinite(d.equity)

\* the for loop that fills byDay
RECURSIVE ByDayP(_)
ByDayP(raw) ==
  IF raw = <<>> THEN <<>>
  ELSE LET m == ByDayP(Front(raw))
           d == Last(raw)
       IN IF KeepsRowP(d) THEN MapSet(m, DayKeyP(d), d.equity) ELSE m

\* the sequences `points` can be after the merge of payload raw
MergeP(raw) == SortByDateStrP(ByDayP(raw))

(***************************************************************************)
(* The merge step of loadEquityChart, build S.                             *)
(***************************************************************************)
InvalidDate == 0

\* new Date(d.date + 'T00:00:00'): the local midnight of day d, or Invalid Date
ParseLocalMidnight(s) == IF s.k = "day" THEN s.d ELSE InvalidDate

\* .filter(p => Number.isFinite(p.y) && !Number.isNaN(p.x.getTime()))
KeepsRowS(d) == IsFinite(d.equity) /\ ParseLocalMidnight(d.date) # InvalidDate

\* .map(...).filter(...)
RECURSIVE MapFilterS(_)
MapFilterS(raw) ==
  IF raw = <<>> THEN <<>>
  ELSE LET d == Last(raw)
       IN IF KeepsRowS(d)
          THEN Append(MapFilterS(Front(raw)), [x |-> ParseLocalMidnight(d.date), y |-> d.equity])
          ELSE MapFilterS(Front(raw))

\* `points` after the merge of payload raw
MergeS(raw) == SortByDateS(MapFilterS(raw))

(***************************************************************************)
(* upsertChartPoint, build P: what it does to the chart's data array.      *)
(***************************************************************************)
\* data.findIndex(p => p.x === dateStr): 0 stands for -1.  Every x the
\* chart of this build holds is a string (the merge and the upsert both store
\* strings), so the typeof branch for Date objects is never taken.
FindIndexP(data, dateStr) ==
  IF \E i \in 1..Len(data) : data[i].x = dateStr
  THEN CHOOSE i \in 1..Len(data) :
         /\ data[i].x = dateStr
         /\ \A j \in 1..(i - 1) : data[j].x # dateStr
  ELSE 0

\* data[idx] = {x, y}  or  data.push({x, y})
PutPointP(data, dateStr, y) ==
  LET idx == FindIndexP(data, dateStr)
  IN IF idx # 0
     THEN [data EXCEPT ![idx] = [x |-> dateStr, y |-> y]]
     ELSE Append(data, [x |-> dateStr, y |-> y])

\* the data arrays the chart can hold after the replace-or-push and the sort
UpsertDataP(data, dateStr, y) == SortByDateStrP(PutPointP(data, dateStr, y))

(***************************************************************************)
(* fetchJson: how a request ends.                                          *)
(*   "ok"       2xx with a JSON body                                       *)
(*   "badjson"  2xx whose body res.json() cannot parse                     *)
(*   "h401"     HTTP 401                                                   *)
(*   "h500"     another HTTP error status                                  *)
(*   "timeout"  no response before the timer aborts the request            *)
(*   "network"  fetch rejects (connection refused, DNS, CORS)              *)
(***************************************************************************)
Outcomes == {"ok", "badjson", "h401", "h500", "timeout", "network"}

\* what fetchJson throws ("none" when it returns the parsed body)
FetchJsonError(out) ==
  CASE out = "ok" -> "none"
    [] out = "timeout" -> "timedOut"
    [] out = "network" -> "unreachable"
    [] out = "badjson" -> "syntax"
    [] OTHER -> "http"

\* the values of the positions/totals part of a portfolio response
Portfolios == {"pfA"}

\* the points every history payload can merge to
LoadResultsP == UNION {MergeP(r) : r \in Payloads}

\* the equities the page flows are run on: one number and one value that is
\* not one
LiveEquities == {100, NotANumber}

\* The history payloads the page flows are run on: no row, or one row dated
\* 'YYYY-MM-DD'.  Longer payloads, the other date shapes and a second equity
\* for a day are run through the merge and the series specifications.
LivePayloads ==
  {<<>>} \cup {<<r>> : r \in [date : {DayStr(d) : d \in Days}, equity : LiveEquities]}

LiveResultsP == UNION {MergeP(r) : r \in LivePayloads}

LiveResultsS == {MergeS(r) : r \in LivePayloads}

\* the (as_of_date_et, totals.total_equity) part of a process-portfolio
\* response; as_of_date_et is documented to be 'YYYY-MM-DD'
NoPair == [pair |-> FALSE, date |-> NoStr, equity |-> NotANumber]

ProcessData == {NoPair} \cup [pair : {TRUE}, date : {DayStr(d) : d \in Days}, equity : LiveEquities]

NoChart == [exists |-> FALSE, data |-> <<>>]

NoPoint == [x |-> NoStr, y |-> NotANumber]

NoResponse == [transport |-> "none"]

NoResult == [kind |-> "none"]

\* no trade request has been built
NoPayload == [ticker |-> "none"]


(***************************************************************************)
(* fetchJson: what one call does with a response.                         *)
(*                                                                         *)
(* A text is held as what the code looks at: whether it contains 'Failed   *)
(* to fetch' or 'NetworkError' (its wording) and how long it is.           *)
(***************************************************************************)
TextLimit == 300

Statuses == {200, 204, 400, 401, 403, 404, 409, 415, 418, 429, 500, 501, 502, 503, 504}

\* res.ok
IsOk(status) == status \in 200..299

Wordings == {"plain", "FailedToFetch", "NetworkError"}

Lengths == {TextLimit - 1, TextLimit, TextLimit + 1}

\* A response body.  "jsonMsg": JSON with a truthy `message` field, whose
\* wording and length are given; "jsonNoMsg": other JSON; "text": text that
\* is not JSON; "empty": no body.  For the last three the wording and the
\* length are those of the raw text.
EmptyBody == [shape |-> "empty", words |-> "plain", len |-> 0]

Bodies ==
  [shape : {"jsonMsg", "jsonNoMsg", "text"}, words : Wordings, len : Lengths]
    \cup {EmptyBody}

\* the content-type header: contains 'application/json', names another
\* type, or is absent
ContentTypes == {"json", "html", "none"}

\* what `await fetch(...)` gives: a response, an abort by the timer, or a
\* rejection whose message is the browser's ('Failed to fetch',
\* 'NetworkError when attempting to fetch resource.', 'Load failed')
Responses ==
  [transport : {"response"}, status : Statuses, ct : ContentTypes, body : Bodies]
    \cup {[transport |-> "abort"]}
    \cup [transport : {"reject"}, words : Wordings]

NoText == [from |-> "nothing"]

\* the `Request failed for ${url}` of fetchJson
Fallback == [from |-> "fallback", words |-> "plain"]

\* text.slice(0, 300)
Slice300(body) ==
  [from |-> "text", words |-> body.words,
   len |-> IF body.len < TextLimit THEN body.len ELSE TextLimit]

\* serverMsg of getErrorMessage: data.message when res.json() gives an object
\* with one; the sliced text when res.json() throws; else ''
ServerMsg(body) ==
  CASE body.shape = "jsonMsg" -> [from |-> "message", words |-> body.words, len |-> body.len]
    [] body.shape = "jsonNoMsg" -> NoText
    [] body.shape = "text" -> Slice300(body)
    [] OTHER -> NoText

\* a switch that lacks `case 503:`
StatusCategoryWithout503(status) ==
  CASE status = 400 -> "checkInputs"
    [] status = 401 -> "signInAgain"
    [] status = 403 -> "noAccess"
    [] status = 404 -> "missing"
    [] status = 415 -> "unsupportedMedia"
    [] status = 429 -> "slowDown"
    [] status = 500 -> "checkServerLogs"
    [] status \in {502, 504} -> "tryAgainShortly"
    [] OTHER -> "statusOnly"

\* the switch on res.status: the suffix the message gets
StatusCategory(status) ==
  CASE status = 400 -> "checkInputs"
    [] status = 401 -> "signInAgain"
    [] status = 403 -> "noAccess"
    [] status = 404 -> "missing"
    [] status = 415 -> "unsupportedMedia"
    [] status = 429 -> "slowDown"
    [] status = 500 -> "checkServerLogs"
    [] status \in {502, 503, 504} -> "tryAgainShortly"
    [] OTHER -> "statusOnly"

\* getErrorMessage(res, fallback, {expectContentType: 'application/json'})
GetErrorMessage(res) ==
  IF IsOk(res.status) /\ res.ct # "json"
  THEN [base |-> NoText, category |-> "unexpectedType", status |-> res.status]
  ELSE LET serverMsg == ServerMsg(res.body)
       IN [base |-> IF serverMsg # NoText THEN serverMsg ELSE Fallback,
           category |-> StatusCategory(res.status),
           status |-> res.status]

\* msg.includes('Failed to fetch') || msg.includes('NetworkError') on the
\* message getErrorMessage built: only its base can hold those words
Reframed(msg) == msg.base # NoText /\ msg.base.words # "plain"

NoMessage == [base |-> NoText, category |-> "none", status |-> 0]

Thrown(class, msg) == [kind |-> "thrown", class |-> class, ensured |-> msg]

\* What one fetchJson call can do with res.  `ensured` is the message of the
\* error ensureOk threw.  The SyntaxError of res.json() quotes the body in
\* some engines and not in others, so on a body that is not JSON and holds
\* the words the catch looks for both outcomes are possible.
FetchJson(res) ==
  CASE res.transport = "abort" -> {Thrown("timeout", NoMessage)}
    [] res.transport = "reject" ->
         {Thrown(IF res.words = "plain" THEN "rethrown" ELSE "unreachable", NoMessage)}
    [] OTHER ->
         IF ~IsOk(res.status)
         THEN LET msg == GetErrorMessage(res)
              IN {Thrown(IF Reframed(msg) THEN "unreachable" ELSE "http", msg)}
         ELSE IF res.body.shape \in {"jsonMsg", "jsonNoMsg"}
         THEN {[kind |-> "returned", class |-> "none", ensured |-> NoMessage]}
         ELSE IF res.body.shape = "text" /\ res.body.words # "plain"
         THEN {Thrown("syntax", NoMessage), Thrown("unreachable", NoMessage)}
         ELSE {Thrown("syntax", NoMessage)}

\* the way the page flows see the call end
OutcomeOf(res) ==
  CASE res.transport = "abort" -> "timeout"
    [] res.transport = "reject" -> "network"
    [] res.status = 401 -> "h401"
    [] ~IsOk(res.status) -> "h500"
    [] res.body.shape \in {"jsonMsg", "jsonNoMsg"} -> "ok"
    [] OTHER -> "badjson"

(***************************************************************************)
(* The trade form: its fields, the checks of the submit listener and the   *)
(* payload it builds.                                                      *)
(*                                                                         *)
(* A numeric field is held as what parseFloat makes of it: a number, or     *)
(* NotANumber when the result is not finite.                               *)
(***************************************************************************)
\* the characters a ticker field is made of: white space, a lower-case and
\* an upper-case letter
Chars == {" ", "a", "A"}

\* what the ticker field can hold
Tickers == UNION {[1..n -> Chars] : n \in 0..MaxTicker}

\* s without its first element
Rest(s) == [i \in 1..(Len(s) - 1) |-> s[i + 1]]

RECURSIVE TrimStart(_)
\* s without its leading white space
TrimStart(s) == IF s # <<>> /\ s[1] = " " THEN TrimStart(Rest(s)) ELSE s

RECURSIVE TrimEnd(_)
\* s without its trailing white space
TrimEnd(s) == IF s # <<>> /\ s[Len(s)] = " " THEN TrimEnd(Front(s)) ELSE s

\* a trim that leaves trailing white space in place
TrimStartOnly(s) == TrimStart(s)

\* String.prototype.trim
Trim(s) == TrimEnd(TrimStart(s))

\* String.prototype.toUpperCase
ToUpperCase(s) == [i \in 1..Len(s) |-> IF s[i] = "a" THEN "A" ELSE s[i]]

\* value of the action field
Actions == {"", "buy", "sell", "hold"}

\* what parseFloat makes of the price field
Prices == {NotANumber, -5, 0, 10}

\* what parseFloat makes of the shares field
Shares == {NotANumber, 0, 5}

\* the trimmed stop-loss field: empty, or a text that ends with '%' or does
\* not; `val` is the number its longest numeric prefix denotes (none:
\* NotANumber), `rest` tells that other characters follow that prefix (before
\* the '%', if there is one)
NoStopLoss == [given |-> FALSE, percent |-> FALSE, val |-> NotANumber, rest |-> FALSE]

StopLosses ==
  {NoStopLoss} \cup [given : {TRUE}, percent : BOOLEAN,
                     val : {NotANumber, -5, 0, 9, 10, 12}, rest : BOOLEAN]

\* parseFloat reads the longest numeric prefix and ignores what follows it
ParseFloat(text) == text.val

Forms == [ticker : Tickers, action : Actions, price : Prices, shares : Shares,
          stopLoss : StopLosses]

\* a test that lets a stop loss equal to the price through
StopAboveBuyStrictly(val, price, action) == val > price /\ action = "buy"

\* a test that forgets the side of the trade
StopAtOrAboveAnySide(val, price, action) == val >= price

\* if (val >= price && action === 'buy')
StopAtOrAboveBuy(val, price, action) == val >= price /\ action = "buy"

\* a stop-loss test that lets negative numbers through
StopLossValueAnyFinite(val) == IsFinite(val)

\* if (Number.isFinite(val) && val >= 0)
StopLossValueOk(val) == IsFinite(val) /\ val >= 0

\* the submit handler up to its try block: what it shows, or "sent"
Validate(f) ==
  IF \/ ToUpperCase(Trim(f.ticker)) = <<>>
     \/ f.action = ""
     \/ ~IsFinite(f.price) \/ f.price <= 0
     \/ ~IsFinite(f.shares) \/ f.shares <= 0
  THEN "invalidFields"
  ELSE IF ~f.stopLoss.given THEN "sent"
  ELSE IF ~StopLossValueOk(ParseFloat(f.stopLoss)) THEN "invalidStopLoss"
  ELSE IF f.stopLoss.percent THEN "sent"
  ELSE IF StopAtOrAboveBuy(ParseFloat(f.stopLoss), f.price, f.action) THEN "stopLossAboveBuy"
  ELSE "sent"

\* the payload the handler has built when it reaches its try block;
\* stop_loss is the trimmed text of the field and is only set for a
\* non-empty field
Payload(f) ==
  [ticker |-> ToUpperCase(Trim(f.ticker)), action |-> f.action, price |-> f.price,
   shares |-> f.shares, hasStopLoss |-> f.stopLoss.given, stop_loss |-> f.stopLoss]

\* the form as the page loads it and as tradeForm.reset() leaves it
EmptyForm ==
  [ticker |-> <<>>, action |-> "", price |-> NotANumber, shares |-> NotANumber,
   stopLoss |-> NoStopLoss]

\* the fields the user of the page flows fills in before a submit
ValidForm ==
  [ticker |-> <<"A">>, action |-> "buy", price |-> 10, shares |-> 5,
   stopLoss |-> NoStopLoss]

\* a handler that leaves the form as it is after a trade
FormKeptAfterTrade(r, f) == f

\* tradeForm.reset() follows the await of fetchJson: it runs when the call
\* returned, and is skipped when it threw
FormAfterTrade(r, f) == IF r.kind = "returned" THEN EmptyForm ELSE f

\* the responses to POST /api/trade the page flows follow
TradeResponses ==
  [transport : {"response"}, status : {200, 400, 401}, ct : {"json"},
   body : [shape : {"jsonMsg"}, words : Wordings, len : {TextLimit - 1}]
            \cup {EmptyBody}]
    \cup {[transport |-> "abort"]}
    \cup [transport : {"reject"}, words : Wordings]

(***************************************************************************)
(* checkStartingCash: the prompt loop.                                     *)
(***************************************************************************)
\* what one prompt() returns: null ("cancel") or the text typed
PromptInputs == {"cancel", "", "abc", "-5", "0", "250", "10000", "10001"}

\* /^\d+(\.\d+)?$/.test(trimmed) ? Number(trimmed) : NaN
AmountOf(input) ==
  CASE input = "0" -> 0
    [] input = "250" -> 250
    [] input = "10000" -> 10000
    [] input = "10001" -> 10001
    [] OTHER -> NotANumber

MaxCash == 10000

\* a loop that lets amounts up to 100000 through
AmountUpTo100000(amount) == IsFinite(amount) /\ amount >= 0 /\ amount <= 100000

\* the negation of the loop condition
\* !Number.isFinite(amount) || amount < 0 || amount > 10000
AmountOk(amount) == IsFinite(amount) /\ amount >= 0 /\ amount <= MaxCash

\* what the user answers to the prompts of one start-up
PromptAnswers == UNION {[1..n -> PromptInputs] : n \in 1..MaxPrompts}

RECURSIVE PromptLoop(_, _)
\* the do-while loop from the i-th answer on: how many prompts were shown and
\* how the loop ended ("open": it is still prompting)
PromptLoop(answers, i) ==
  IF i > Len(answers) THEN [asked |-> i - 1, end |-> "open", amount |-> NotANumber]
  ELSE IF answers[i] = "cancel" THEN [asked |-> i, end |-> "cancel", amount |-> NotANumber]
  ELSE IF AmountOk(AmountOf(answers[i]))
  THEN [asked |-> i, end |-> "amount", amount |-> AmountOf(answers[i])]
  ELSE PromptLoop(answers, i + 1)

\* no POST /api/set-cash is in flight
NoSetCash == [sent |-> FALSE, cash |-> 0]

(***************************************************************************)
(* The totals of a response.  A field is a number, or Absent when the      *)
(* response has no such field or has null in it.                           *)
(***************************************************************************)
Absent == -2

FieldValues == {Absent, 0, 250}

\* what is looked at of a response of GET /api/portfolio (total_equity, cash,
\* deployed_capital) or of POST /api/process-portfolio (as_of_date_et, here
\* date, and totals.total_equity)
Responded ==
  [date : {NoStr} \cup {DayStr(d) : d \in Days}, total_equity : FieldValues,
   cash : FieldValues, deployed_capital : FieldValues]

NoData == [date |-> NoStr, total_equity |-> Absent, cash |-> Absent,
           deployed_capital |-> Absent]

\* the three elements with the same text v, Absent for the text of the HTML
TotalsOf(v) == [totalEquity |-> v, cashBalance |-> v, deployedCapital |-> v]

NoTotals == TotalsOf(Absent)

\* if (data.cash): a field that is 0 is passed over like one that is not there
IsTruthy(v) == v # Absent /\ v # 0

\* data.cash != null
IsPresent(v) == v # Absent

\* if (data.cash != null) { ...; if (el) el.textContent = `$${data.cash}`; }
ShowField(v, text) == IF IsPresent(v) THEN v ELSE text

\* the totals part of loadPortfolio
RenderTotals(d, t) ==
  [totalEquity |-> ShowField(d.total_equity, t.totalEquity),
   cashBalance |-> ShowField(d.cash, t.cashBalance),
   deployedCapital |-> ShowField(d.deployed_capital, t.deployedCapital)]

\* data?.as_of_date_et && data?.totals?.total_equity != null
HasPair(d) == d.date # NoStr /\ IsPresent(d.total_equity)

(***************************************************************************)
(* State.                                                                  *)
(***************************************************************************)
VARIABLES
  raw,        \* the history payload handed to the merge step
  points,     \* the `points` array the merge step produced
  merged,     \* "none", or the build whose merge step produced points
  stored,     \* localStorage holds a session token
  clears,     \* calls of localStorage.removeItem('token') so far
  redirects,  \* redirect-to-login timers scheduled so far
  location,   \* "app" while the page is shown, "login" once it navigated away
  canvas,     \* the #equityChart canvas is in the document
  chart,      \* equityChartInstance: whether it exists and its dataset's data
  shown,      \* the portfolio response whose positions and totals are displayed
  initPc,     \* where init() is
  tradeLogBg, \* the un-awaited loadTradeLog() of init is waiting for its response
  loads,      \* the history requests in flight, in the order they were sent
  submitPc,   \* where the trade form's submit handler is
  procPc,     \* where the process-portfolio click handler is
  procData,   \* the process-portfolio response that handler holds
  disabled,   \* the process buttons are disabled
  last,       \* the step taken last
  token,      \* the `token` constant of the page script: a token was stored at load
  setCash,    \* the POST /api/set-cash in flight and the cash in its body
  errorMsg,   \* the message visible in #errorMessage, "none" while it is hidden
  trades,     \* the trade-log response whose rows are displayed
  instances,  \* the Chart objects made and not destroyed
  response,   \* what the network hands to one fetchJson call
  result,     \* what that fetchJson call returned or threw
  form,       \* the fields of the trade form
  verdict,    \* what the submit handler did with them
  payload,    \* the body of the POST /api/trade that handler sent
  answer,     \* the date and the totals of a portfolio or process response
  totals      \* the texts of #totalEquity, #cashBalance and #deployedCapital

mergeVars == <<raw, points, merged>>

sessionVars == <<stored, clears, redirects>>

liveVars == <<stored, clears, redirects, location, canvas, chart, shown, initPc,
              tradeLogBg, loads, submitPc, procPc, procData, disabled, last, token,
              setCash, errorMsg, trades, instances>>

\* what the page displays beside the portfolio and the chart's data
viewVars == <<errorMsg, trades, instances>>

fetchVars == <<response, result>>

formVars == <<form, verdict, payload>>

totalsVars == <<answer, totals>>

\* the variables of the functions that are run on their own
pureVars == <<mergeVars, fetchVars, verdict, payload, totalsVars>>

vars == <<raw, points, merged, stored, clears, redirects, location, canvas, chart,
          shown, initPc, tradeLogBg, loads, submitPc, procPc, procData, disabled,
          last, token, setCash, errorMsg, trades, instances, response, result, form,
          verdict, payload, answer, totals>>

\* what `last` records of a step: the operation, how it ended ("ok", "h401"
\* for a 401 response, "fail" for another failure, or for upsertChartPoint
\* "nan", "nochart", "ok"), for an answered history request whether a
\* later-started one had been answered before it, and for an applied upsert
\* the point it put into the series
Step(op, out) ==
  [op |-> op,
   res |-> IF out \in Outcomes \ {"ok", "h401"} THEN "fail" ELSE out,
   overtaken |-> FALSE, pt |-> NoPoint, asked |-> 0]

(***************************************************************************)
(* The page before DOMContentLoaded.                                       *)
(***************************************************************************)
\* no fetchJson call and no form submit is being followed on its own
InitIdlePure ==
  /\ response = NoResponse
  /\ result = NoResult
  /\ form = EmptyForm
  /\ verdict = "none"
  /\ payload = NoPayload
  /\ answer = NoData
  /\ totals = NoTotals

InitLive ==
  /\ stored \in BOOLEAN
  /\ clears = 0
  /\ redirects = 0
  /\ location = "app"
  /\ canvas = TRUE
  /\ chart = NoChart
  /\ shown = "none"
  /\ initPc = "boot"
  /\ tradeLogBg = FALSE
  /\ loads = <<>>
  /\ submitPc = "idle"
  /\ procPc = "idle"
  /\ procData = NoPair
  /\ disabled = FALSE
  /\ last = Step("none", "ok")
  /\ token = FALSE
  /\ setCash = NoSetCash
  /\ errorMsg = "none"
  /\ trades = "none"
  /\ instances = 0

Init ==
  /\ InitLive
  /\ raw = <<>>
  /\ points = <<>>
  /\ merged = "none"
  /\ InitIdlePure

(***************************************************************************)
(* The merge step on its own: every payload, either build.                 *)
(***************************************************************************)
InitMerge ==
  /\ raw \in Payloads
  /\ points = <<>>
  /\ merged = "none"
  /\ InitLive
  /\ stored = TRUE
  /\ InitIdlePure

LoadMergeP ==
  /\ merged = "none"
  /\ \E pts \in MergeP(raw) : points' = pts
  /\ merged' = "P"
  /\ UNCHANGED raw
  /\ UNCHANGED <<liveVars, fetchVars, formVars, totalsVars>>

LoadMergeS ==
  /\ merged = "none"
  /\ points' = MergeS(raw)
  /\ merged' = "S"
  /\ UNCHANGED raw
  /\ UNCHANGED <<liveVars, fetchVars, formVars, totalsVars>>

NextMerge == LoadMergeP \/ LoadMergeS

SpecMerge == InitMerge /\ [][NextMerge]_vars

(***************************************************************************)
(* Steps both builds share.  Every step is what runs between two awaits.   *)
(***************************************************************************)
Running == location = "app"

\* the model follows at most Max401 responses with status 401
Allowed(out) == out = "h401" => clears < Max401

\* an ensureOk that treats every failure the way it treats a 401
EnsureOkOnAnyFailure(out) ==
  IF out # "ok"
  THEN /\ stored' = FALSE
       /\ clears' = clears + 1
       /\ redirects' = redirects + 1
  ELSE UNCHANGED sessionVars

\* ensureOk on a response: a 401 removes the stored token and schedules the
\* redirect to /login 800 ms later
EnsureOk(out) ==
  IF out = "h401"
  THEN /\ stored' = FALSE
       /\ clears' = clears + 1
       /\ redirects' = redirects + 1
  ELSE UNCHANGED sessionVars

\* the #errorMessage element after hideError()
HideError == "none"

\* the #errorMessage element after ensureOk on a response: a 401 shows the
\* session-expired message in it
EnsureOkShows(out, e) == IF out = "h401" THEN "session" ELSE e

\* the #errorMessage element after a fetchJson ending as out inside a try
\* whose catch calls showError(err.message): the message of operation op
\* replaces what ensureOk showed
CatchShows(out, op, e) == IF out = "ok" THEN e ELSE op

\* the trade-log responses
TradeLogs == {"tlA"}

\* a request record of loadEquityChart
NewLoad(owner) == [owner |-> owner, overtaken |-> FALSE]

\* loadEquityChart() up to its await: nothing without the canvas, else the
\* history request is sent
SendHistory(owner) == IF canvas THEN Append(loads, NewLoad(owner)) ELSE loads

\* the requests still in flight once the i-th has been answered; those sent
\* before it have now been overtaken by a later-started load
Answered(ls, i) ==
  [j \in 1..(Len(ls) - 1) |->
     IF j < i THEN [ls[j] EXCEPT !.overtaken = TRUE] ELSE ls[j + 1]]

\* the handlers that have yet to call loadEquityChart
Upcoming == (IF submitPc = "idle" THEN 0 ELSE 1) + (IF procPc = "idle" THEN 0 ELSE 1)

\* the user starts another action only while fewer than MaxInFlight history
\* requests are in flight or about to be sent
MayClick == Len(loads) + Upcoming < MaxInFlight

\* ls without its i-th element
RemoveAt(ls, i) == [j \in 1..(Len(ls) - 1) |-> IF j < i THEN ls[j] ELSE ls[j + 1]]

\* the page is left for /login: its document, its chart, its handlers and
\* its requests are gone; localStorage stays
Unload ==
  /\ location' = "login"
  /\ canvas' = FALSE
  /\ chart' = NoChart
  /\ shown' = "none"
  /\ initPc' = "stopped"
  /\ tradeLogBg' = FALSE
  /\ loads' = <<>>
  /\ submitPc' = "idle"
  /\ procPc' = "idle"
  /\ procData' = NoPair
  /\ disabled' = FALSE
  /\ errorMsg' = "none"
  /\ trades' = "none"
  /\ instances' = 0

\* a page that goes on without a token
RequireAuthAlways(tok) == TRUE

\* requireAuthOrRedirect(): false, after setting window.location.href to
\* '/login', when `token` is empty
RequireAuthOrRedirect(tok) == tok

\* an init that starts with loadPortfolio
InitFirstStepPortfolio == "portfolio"

\* the first await of init: checkStartingCash, up to its fetchJson of
\* /api/needs-cash
InitFirstStep == "needsCash"

\* DOMContentLoaded: the stored token is read into `token`, then
\* requireAuthOrRedirect, then init() up to its first await
Boot ==
  /\ Running
  /\ initPc = "boot"
  /\ IF RequireAuthOrRedirect(stored)
     THEN /\ initPc' = InitFirstStep
          /\ UNCHANGED <<location, canvas, chart, shown, tradeLogBg, loads, submitPc,
                         procPc, procData, disabled, viewVars>>
     ELSE Unload
  /\ last' = Step("boot", "ok")
  /\ token' = stored
  /\ UNCHANGED sessionVars
  /\ UNCHANGED <<pureVars, setCash, form>>

\* checkStartingCash after GET /api/needs-cash.  With needs_cash the prompt
\* loop runs on the user's answers until it has an amount (POST /api/set-cash
\* is sent with it) or a cancel; without it, on a cancel and on any failure
\* (whose message the catch shows) init goes on to loadPortfolio, which starts
\* with hideError()
NeedsCashEnds(out, needsCash, answers) ==
  /\ Running
  /\ initPc = "needsCash"
  /\ Allowed(out)
  /\ EnsureOk(out)
  /\ IF out = "ok" /\ needsCash
     THEN LET loop == PromptLoop(answers, 1)
          IN /\ loop.end # "open"
             /\ loop.asked = Len(answers)
             /\ initPc' = IF loop.end = "amount" THEN "setCash" ELSE "portfolio"
             /\ setCash' = IF loop.end = "amount"
                           THEN [sent |-> TRUE, cash |-> loop.amount]
                           ELSE NoSetCash
             /\ errorMsg' = IF loop.end = "amount" THEN errorMsg ELSE HideError
             /\ last' = [Step("needsCash", out) EXCEPT !.asked = loop.asked]
     ELSE /\ initPc' = "portfolio"
          /\ setCash' = NoSetCash
          /\ errorMsg' = HideError
          /\ last' = Step("needsCash", out)
  /\ UNCHANGED <<location, canvas, chart, shown, tradeLogBg, loads, submitPc,
                 procPc, procData, disabled, trades, instances>>
  /\ UNCHANGED <<pureVars, token, form>>

NeedsCashDone ==
  /\ initPc = "needsCash"
  /\ \E out \in Outcomes, needsCash \in BOOLEAN, answers \in PromptAnswers :
       NeedsCashEnds(out, needsCash, answers)

\* checkStartingCash after POST /api/set-cash (the catch shows a failure's
\* message), then loadPortfolio is called and starts with hideError()
SetCashDone ==
  /\ Running
  /\ initPc = "setCash"
  /\ \E out \in Outcomes :
       /\ Allowed(out)
       /\ EnsureOk(out)
       /\ last' = Step("setCash", out)
  /\ initPc' = "portfolio"
  /\ setCash' = NoSetCash
  /\ errorMsg' = HideError
  /\ UNCHANGED <<location, canvas, chart, shown, tradeLogBg, loads, submitPc,
                 procPc, procData, disabled, trades, instances>>
  /\ UNCHANGED <<pureVars, token, form>>

\* loadPortfolio after GET /api/portfolio: the table and totals are rendered
\* from the response, or the error is shown
RenderPortfolio(out, pf) == IF out = "ok" THEN pf ELSE shown

\* a loadTradeLog that renders nothing
RenderTradeLogNever(out, tl) == trades

\* loadTradeLog after GET /api/trade-log: the rows are rendered from the
\* response, or the error is shown
RenderTradeLog(out, tl) == IF out = "ok" THEN tl ELSE trades

\* init after its loadPortfolio, whose catch shows a failure's message:
\* loadTradeLog(), which starts with hideError(), and loadEquityChart() are
\* called without await, then wireEvents()
InitPortfolioEnds(out, pf) ==
  /\ Running
  /\ initPc = "portfolio"
  /\ Allowed(out)
  /\ EnsureOk(out)
  /\ shown' = RenderPortfolio(out, pf)
  /\ last' = Step("portfolio", out)
  /\ tradeLogBg' = TRUE
  /\ loads' = SendHistory("init")
  /\ initPc' = "ready"
  /\ errorMsg' = HideError
  /\ UNCHANGED <<location, canvas, chart, submitPc, procPc, procData, disabled,
                 trades, instances>>
  /\ UNCHANGED <<pureVars, token, setCash, form>>

InitPortfolioDone == \E out \in Outcomes, pf \in Portfolios : InitPortfolioEnds(out, pf)

\* the un-awaited loadTradeLog of init after GET /api/trade-log
TradeLogDone ==
  /\ Running
  /\ tradeLogBg
  /\ \E out \in Outcomes :
       /\ Allowed(out)
       /\ EnsureOk(out)
       /\ errorMsg' = CatchShows(out, "tradeLog", EnsureOkShows(out, errorMsg))
       /\ \E tl \in TradeLogs : trades' = RenderTradeLog(out, tl)
       /\ last' = Step("tradeLog", out)
  /\ tradeLogBg' = FALSE
  /\ UNCHANGED <<location, canvas, chart, shown, initPc, loads, submitPc, procPc,
                 procData, disabled, instances>>
  /\ UNCHANGED <<pureVars, token, setCash, form>>

\* the user fills in the form and submits it; the fields pass validation and
\* POST /api/trade is sent
SubmitTrade ==
  /\ Running
  /\ initPc = "ready"
  /\ submitPc = "idle"
  /\ MayClick
  /\ Validate(ValidForm) = "sent"
  /\ form' = ValidForm
  /\ submitPc' = "trade"
  /\ last' = Step("submit", "ok")
  /\ UNCHANGED <<sessionVars, location, canvas, chart, shown, initPc, tradeLogBg,
                 loads, procPc, procData, disabled>>
  /\ UNCHANGED <<pureVars, token, setCash, viewVars>>

\* the user submits the form as it stands and the fields fail validation: the
\* reason is shown and the handler returns
SubmitRejected ==
  /\ Running
  /\ initPc = "ready"
  /\ submitPc = "idle"
  /\ Validate(form) # "sent"
  /\ last' = Step("submit", "rejected")
  /\ UNCHANGED <<sessionVars, location, canvas, chart, shown, initPc, tradeLogBg,
                 loads, submitPc, procPc, procData, disabled>>
  /\ UNCHANGED <<pureVars, token, setCash, form, viewVars>>

\* the submit handler after POST /api/trade was answered by res and fetchJson
\* ended as r: when it returned, the form is reset and loadPortfolio is
\* called; when it threw, err.message is shown
TradeEnds(res, r) ==
  /\ Running
  /\ submitPc = "trade"
  /\ r \in FetchJson(res)
  /\ Allowed(OutcomeOf(res))
  /\ EnsureOk(OutcomeOf(res))
  /\ submitPc' = IF r.kind = "returned" THEN "portfolio" ELSE "idle"
  /\ form' = FormAfterTrade(r, form)
  /\ errorMsg' = IF r.kind = "returned"
                 THEN HideError
                 ELSE EnsureOkShows(OutcomeOf(res), errorMsg)
  /\ last' = Step("trade", OutcomeOf(res))
  /\ UNCHANGED <<location, canvas, chart, shown, initPc, tradeLogBg, loads, procPc,
                 procData, disabled, trades, instances>>
  /\ UNCHANGED <<pureVars, token, setCash>>

TradeDone ==
  /\ submitPc = "trade"
  /\ \E res \in TradeResponses : \E r \in FetchJson(res) : TradeEnds(res, r)

\* the submit handler after its loadPortfolio: loadTradeLog is called
SubmitPortfolioEnds(out, pf) ==
  /\ Running
  /\ submitPc = "portfolio"
  /\ Allowed(out)
  /\ EnsureOk(out)
  /\ shown' = RenderPortfolio(out, pf)
  /\ last' = Step("portfolio", out)
  /\ submitPc' = "tradeLog"
  /\ errorMsg' = HideError
  /\ UNCHANGED <<location, canvas, chart, initPc, tradeLogBg, loads, procPc,
                 procData, disabled, trades, instances>>
  /\ UNCHANGED <<pureVars, token, setCash, form>>

SubmitPortfolioDone == \E out \in Outcomes, pf \in Portfolios : SubmitPortfolioEnds(out, pf)

\* the #errorMessage element after loadEquityChart() up to its await: build
\* P calls hideError() once it has found the canvas, build S does not
HistoryCallShows(hides, e) == IF hides /\ canvas THEN HideError ELSE e

\* the submit handler after its loadTradeLog, whose catch shows a failure's
\* message: loadEquityChart is called
SubmitTradeLogEnds(hides) ==
  /\ Running
  /\ submitPc = "tradeLog"
  /\ \E out \in Outcomes :
       /\ Allowed(out)
       /\ EnsureOk(out)
       /\ errorMsg' = HistoryCallShows(hides,
                         CatchShows(out, "tradeLog", EnsureOkShows(out, errorMsg)))
       /\ \E tl \in TradeLogs : trades' = RenderTradeLog(out, tl)
       /\ last' = Step("tradeLog", out)
  /\ loads' = SendHistory("submit")
  /\ submitPc' = IF canvas THEN "equity" ELSE "idle"
  /\ UNCHANGED <<location, canvas, chart, shown, initPc, tradeLogBg, procPc,
                 procData, disabled, instances>>
  /\ UNCHANGED <<pureVars, token, setCash, form>>

SubmitTradeLogDone == SubmitTradeLogEnds(FALSE)

SubmitTradeLogDoneP == SubmitTradeLogEnds(TRUE)

\* a scheduled redirect timer fires
RedirectFires ==
  /\ Running
  /\ redirects > 0
  /\ Unload
  /\ last' = Step("redirect", "ok")
  /\ UNCHANGED sessionVars
  /\ UNCHANGED <<pureVars, token, setCash, form>>

\* the handler that awaited the answered history request goes on
ResumeOwner(owner) ==
  /\ submitPc' = IF owner = "submit" THEN "idle" ELSE submitPc
  /\ procPc' = IF owner = "process" THEN "idle" ELSE procPc

HistoryStep(l, out) == [Step("history", out) EXCEPT !.overtaken = l.overtaken]

(***************************************************************************)
(* Build P: loadEquityChart after its await, upsertChartPoint,             *)
(* handleProcess.                                                          *)
(***************************************************************************)
\* a loadEquityChart that makes its chart beside the one there is
KeepOldP(n) == n

\* if (equityChartInstance) equityChartInstance.destroy();
DestroyOldP(n) == IF chart.exists THEN n - 1 ELSE n

\* loadEquityChart after GET /api/portfolio-history, the response's payload
\* merging to one of results.  Success with points: the old chart is destroyed
\* and a new one made on the canvas this call looked up.  Success without
\* points, or failure: the canvas is replaced by the 'No data available'
\* paragraph and equityChartInstance is left as it is.
LoadDoneP(results) ==
  /\ Running
  /\ \E i \in 1..Len(loads), out \in Outcomes :
       /\ Allowed(out)
       /\ EnsureOk(out)
       /\ errorMsg' = CatchShows(out, "history", EnsureOkShows(out, errorMsg))
       /\ IF out = "ok"
          THEN \E pts \in results :
                 IF pts = <<>>
                 THEN /\ canvas' = FALSE
                      /\ UNCHANGED <<chart, instances>>
                 ELSE /\ chart' = [exists |-> TRUE, data |-> pts]
                      /\ instances' = DestroyOldP(instances) + 1
                      /\ UNCHANGED canvas
          ELSE /\ canvas' = FALSE
               /\ UNCHANGED <<chart, instances>>
       /\ loads' = RemoveAt(loads, i)
       /\ ResumeOwner(loads[i].owner)
       /\ last' = HistoryStep(loads[i], out)
  /\ UNCHANGED <<location, shown, initPc, tradeLogBg, procData, disabled, trades>>
  /\ UNCHANGED <<pureVars, token, setCash, form>>

LoadEquityChartDoneP == LoadDoneP(LiveResultsP)

\* a click on the process button: POST /api/process-portfolio is sent
HandleProcessP ==
  /\ Running
  /\ initPc = "ready"
  /\ procPc = "idle"
  /\ MayClick
  /\ procPc' = "process"
  /\ last' = Step("click", "ok")
  /\ UNCHANGED <<sessionVars, location, canvas, chart, shown, initPc, tradeLogBg,
                 loads, submitPc, procData, disabled>>
  /\ UNCHANGED <<pureVars, token, setCash, form, viewVars>>

\* handleProcess after POST /api/process-portfolio: loadPortfolio is called
\* and starts with hideError(), or the catch shows the failure's message
ProcessDoneP ==
  /\ Running
  /\ procPc = "process"
  /\ \E out \in Outcomes, data \in ProcessData :
       /\ Allowed(out)
       /\ EnsureOk(out)
       /\ IF out = "ok"
          THEN /\ procPc' = "portfolio"
               /\ procData' = data
          ELSE /\ procPc' = "idle"
               /\ UNCHANGED procData
       /\ errorMsg' = IF out = "ok"
                      THEN HideError
                      ELSE CatchShows(out, "process", EnsureOkShows(out, errorMsg))
       /\ last' = Step("process", out)
  /\ UNCHANGED <<location, canvas, chart, shown, initPc, tradeLogBg, loads,
                 submitPc, disabled, trades, instances>>
  /\ UNCHANGED <<pureVars, token, setCash, form>>

\* upsertChartPoint without its first guard: every equity goes on
UpsertIgnoresNothing(equity) == FALSE

\* if (!Number.isFinite(y)) return;
UpsertIgnores(equity) == ~IsFinite(equity)

\* upsertChartPoint(dateStr, equity), called while #errorMessage holds e
UpsertChartPoint(dateStr, equity, e) ==
  IF UpsertIgnores(equity)
  THEN /\ UNCHANGED <<chart, loads>>
       /\ errorMsg' = e
       /\ last' = Step("upsert", "nan")
  ELSE IF ~chart.exists
  THEN /\ loads' = SendHistory("upsert")
       /\ errorMsg' = HistoryCallShows(TRUE, e)
       /\ UNCHANGED chart
       /\ last' = Step("upsert", "nochart")
  ELSE /\ \E data \in UpsertDataP(chart.data, dateStr, equity) :
            chart' = [exists |-> TRUE, data |-> data]
       /\ UNCHANGED loads
       /\ errorMsg' = e
       /\ last' = [Step("upsert", "ok") EXCEPT !.pt = [x |-> dateStr, y |-> equity]]

\* handleProcess after its loadPortfolio: the response's pair is upserted, or
\* without the pair loadEquityChart is called and awaited
ProcessPortfolioDoneP ==
  /\ Running
  /\ procPc = "portfolio"
  /\ \E out \in Outcomes, pf \in Portfolios :
       LET e == CatchShows(out, "portfolio", EnsureOkShows(out, errorMsg))
       IN /\ Allowed(out)
          /\ EnsureOk(out)
          /\ shown' = RenderPortfolio(out, pf)
          /\ IF procData.pair
             THEN /\ UpsertChartPoint(procData.date, procData.equity, e)
                  /\ procPc' = "idle"
             ELSE /\ loads' = SendHistory("process")
                  /\ errorMsg' = HistoryCallShows(TRUE, e)
                  /\ procPc' = IF canvas THEN "equity" ELSE "idle"
                  /\ last' = Step("reload", "ok")
                  /\ UNCHANGED chart
  /\ procData' = NoPair
  /\ UNCHANGED <<location, canvas, initPc, tradeLogBg, submitPc, disabled, trades,
                 instances>>
  /\ UNCHANGED <<pureVars, token, setCash, form>>

NextP ==
  \/ Boot
  \/ NeedsCashDone
  \/ SetCashDone
  \/ InitPortfolioDone
  \/ TradeLogDone
  \/ SubmitTrade
  \/ SubmitRejected
  \/ TradeDone
  \/ SubmitPortfolioDone
  \/ SubmitTradeLogDoneP
  \/ RedirectFires
  \/ LoadEquityChartDoneP
  \/ HandleProcessP
  \/ ProcessDoneP
  \/ ProcessPortfolioDoneP

SpecP == Init /\ [][NextP]_vars

(***************************************************************************)
(* Build P, the series on its own: loadEquityChart and upsertChartPoint    *)
(* called in any order on any payload, date and equity, once the page is   *)
(* ready.                                                                  *)
(***************************************************************************)
InitSeries ==
  /\ stored = TRUE
  /\ clears = 0
  /\ redirects = 0
  /\ location = "app"
  /\ canvas = TRUE
  /\ chart = NoChart
  /\ shown = "pfA"
  /\ initPc = "ready"
  /\ tradeLogBg = FALSE
  /\ loads = <<NewLoad("init")>>
  /\ submitPc = "idle"
  /\ procPc = "idle"
  /\ procData = NoPair
  /\ disabled = FALSE
  /\ last = Step("portfolio", "ok")
  /\ token = TRUE
  /\ setCash = NoSetCash
  /\ errorMsg = "none"
  /\ trades = "tlA"
  /\ instances = 0
  /\ raw = <<>>
  /\ points = <<>>
  /\ merged = "none"
  /\ InitIdlePure

\* a handler calls loadEquityChart()
CallLoadEquityChart ==
  /\ Running
  /\ Len(loads) < MaxInFlight
  /\ loads' = SendHistory("caller")
  /\ errorMsg' = HistoryCallShows(TRUE, errorMsg)
  /\ last' = Step("reload", "ok")
  /\ UNCHANGED <<sessionVars, location, canvas, chart, shown, initPc, tradeLogBg,
                 submitPc, procPc, procData, disabled, trades, instances>>
  /\ UNCHANGED <<pureVars, token, setCash, form>>

\* a history request is answered, with any payload
SeriesLoadDone == LoadDoneP(LoadResultsP)

\* a handler calls upsertChartPoint(dateStr, equity) for day d
UpsertCall(d, equity) ==
  /\ Running
  /\ ~UpsertIgnores(equity) /\ ~chart.exists => Len(loads) < MaxInFlight
  /\ UpsertChartPoint(DayStr(d), equity, errorMsg)
  /\ UNCHANGED <<sessionVars, location, canvas, shown, initPc, tradeLogBg,
                 submitPc, procPc, procData, disabled, trades, instances>>
  /\ UNCHANGED <<pureVars, token, setCash, form>>

CallUpsertChartPoint == \E d \in Days, equity \in EquityValues : UpsertCall(d, equity)

NextSeries ==
  \/ CallLoadEquityChart
  \/ SeriesLoadDone
  \/ CallUpsertChartPoint
  \/ RedirectFires

SpecSeries == InitSeries /\ [][NextSeries]_vars

(***************************************************************************)
(* Build S: loadEquityChart after its await, handle(force).                *)
(***************************************************************************)
\* a finally that leaves the buttons as they are
LeaveButtonsDisabled == TRUE

\* finally { buttons.forEach(b => b.disabled = false); }
EnableButtons == FALSE

\* a loadEquityChart that adds the points to those the chart has
PushDataS(pts) == chart.data \o pts

\* equityChartInstance.data.datasets[0].data = points, or data: points of the
\* chart that is made
SetDataS(pts) == pts

\* if (equityChartInstance) { equityChartInstance.destroy(); ... }
DestroyS(n) == IF chart.exists THEN n - 1 ELSE n

\* a loadEquityChart that makes a chart whether or not there is one
MakeAlwaysS(n) == n + 1

\* if (equityChartInstance) { ...; return; } equityChartInstance = new Chart(...)
MakeUnlessThereS(n) == IF chart.exists THEN n ELSE n + 1

\* loadEquityChart after GET /api/portfolio-history.  Success with points:
\* the chart's data is replaced, or the chart is made.  Success without
\* points, or failure: the chart is destroyed and equityChartInstance is null.
LoadEndsS(results, i, out) ==
  /\ Running
  /\ Allowed(out)
  /\ EnsureOk(out)
  /\ errorMsg' = EnsureOkShows(out, errorMsg)
  /\ IF out = "ok"
     THEN \E pts \in results :
            IF pts = <<>>
            THEN /\ chart' = NoChart
                 /\ instances' = DestroyS(instances)
            ELSE /\ chart' = [exists |-> TRUE, data |-> SetDataS(pts)]
                 /\ instances' = MakeUnlessThereS(instances)
     ELSE /\ chart' = NoChart
          /\ instances' = DestroyS(instances)
  /\ loads' = Answered(loads, i)
  /\ ResumeOwner(loads[i].owner)
  /\ disabled' = IF loads[i].owner = "process" THEN EnableButtons ELSE disabled
  /\ last' = HistoryStep(loads[i], out)
  /\ UNCHANGED <<location, canvas, shown, initPc, tradeLogBg, procData, trades>>
  /\ UNCHANGED <<pureVars, token, setCash, form>>

LoadEquityChartDoneS ==
  \E i \in 1..Len(loads), out \in Outcomes : LoadEndsS(LiveResultsS, i, out)

\* a handler that leaves the buttons enabled
LeaveButtonsEnabled == FALSE

\* buttons.forEach(b => b.disabled = true)
DisableButtons == TRUE

\* a click on #processPortfolioBtn (force = false) or on
\* #forceProcessPortfolioBtn (force = true), which a disabled button does not
\* deliver: handle(force) up to its await, POST /api/process-portfolio is sent
Handle(force) ==
  /\ Running
  /\ initPc = "ready"
  /\ ~disabled
  /\ MayClick
  /\ disabled' = DisableButtons
  /\ procPc' = "process"
  /\ last' = Step(IF force THEN "forceClick" ELSE "click", "ok")
  /\ UNCHANGED <<sessionVars, location, canvas, chart, shown, initPc, tradeLogBg,
                 loads, submitPc, procData>>
  /\ UNCHANGED <<pureVars, token, setCash, form, viewVars>>

HandleS == \E force \in BOOLEAN : Handle(force)

\* handle after POST /api/process-portfolio.  On success the response is
\* rendered and loadEquityChart is called and awaited; when the response is
\* the JSON null, renderProcessedPortfolio throws on data.positions before it
\* has rendered anything.  On that and on a failure of the request the catch
\* shows the message in #processMessage and the finally enables the buttons
\* again.
HandleDoneS ==
  /\ Running
  /\ procPc = "process"
  /\ \E out \in Outcomes, pf \in Portfolios, renders \in BOOLEAN :
       /\ Allowed(out)
       /\ EnsureOk(out)
       /\ IF out = "ok" /\ renders
          THEN /\ shown' = pf
               /\ loads' = SendHistory("process")
               /\ procPc' = IF canvas THEN "equity" ELSE "idle"
               /\ disabled' = IF canvas THEN disabled ELSE EnableButtons
               /\ last' = Step("process", out)
          ELSE /\ procPc' = "idle"
               /\ disabled' = EnableButtons
               /\ UNCHANGED <<shown, loads>>
               /\ last' = IF out = "ok" THEN Step("render", "threw") ELSE Step("process", out)
       /\ errorMsg' = EnsureOkShows(out, errorMsg)
  /\ UNCHANGED <<location, canvas, chart, initPc, tradeLogBg, submitPc, procData,
                 trades, instances>>
  /\ UNCHANGED <<pureVars, token, setCash, form>>

NextS ==
  \/ Boot
  \/ NeedsCashDone
  \/ SetCashDone
  \/ InitPortfolioDone
  \/ TradeLogDone
  \/ SubmitTrade
  \/ SubmitRejected
  \/ TradeDone
  \/ SubmitPortfolioDone
  \/ SubmitTradeLogDone
  \/ RedirectFires
  \/ LoadEquityChartDoneS
  \/ HandleS
  \/ HandleDoneS

Spec == Init /\ [][NextS]_vars

\* the history request of `owner` is answered
AnswerOwned(owner) ==
  \E i \in 1..Len(loads), out \in Outcomes :
    loads[i].owner = owner /\ LoadEndsS(LiveResultsS, i, out)

\* Build S with what its scheduling guarantees for init and for handle.
\* Every fetchJson settles, by a response, by fetch rejecting or by its own
\* timer aborting the request (15 s, 30 s for the history), so the steps of
\* init and of handle that wait for a request are taken, and the user answers
\* the prompts of checkStartingCash.  Nothing makes the user click or submit,
\* and nothing is assumed of the other requests.
SpecLive ==
  /\ Spec
  /\ WF_vars(NeedsCashDone)
  /\ WF_vars(SetCashDone)
  /\ WF_vars(InitPortfolioDone)
  /\ WF_vars(HandleDoneS)
  /\ WF_vars(AnswerOwned("process"))

(***************************************************************************)
(* Build S, the history load on its own: loadEquityChart called again and  *)
(* again, one call after the other, the backend answering with the same    *)
(* payload every time.                                                     *)
(***************************************************************************)
ReloadPayloads == UNION {[1..n -> Rows] : n \in 0..MaxReloadRows}

\* the page is ready, the load of init in flight
InitReload ==
  /\ stored = TRUE
  /\ clears = 0
  /\ redirects = 0
  /\ location = "app"
  /\ canvas = TRUE
  /\ chart = NoChart
  /\ shown = "pfA"
  /\ initPc = "ready"
  /\ tradeLogBg = FALSE
  /\ loads = <<NewLoad("init")>>
  /\ submitPc = "idle"
  /\ procPc = "idle"
  /\ procData = NoPair
  /\ disabled = FALSE
  /\ last = Step("portfolio", "ok")
  /\ token = TRUE
  /\ setCash = NoSetCash
  /\ errorMsg = "none"
  /\ trades = "tlA"
  /\ instances = 0
  /\ raw \in ReloadPayloads
  /\ points = <<>>
  /\ merged = "none"
  /\ InitIdlePure

\* a handler calls loadEquityChart() once the call before it is over.  When
\* that call ended well, `points` keeps the series it left.
ReloadCallS ==
  /\ Running
  /\ loads = <<>>
  /\ loads' = SendHistory("caller")
  /\ points' = chart.data
  /\ merged' = IF last.op = "history" /\ last.res = "ok" THEN "S" ELSE "none"
  /\ last' = Step("reload", "ok")
  /\ UNCHANGED <<sessionVars, location, canvas, chart, shown, initPc, tradeLogBg,
                 submitPc, procPc, procData, disabled, token, setCash, viewVars>>
  /\ UNCHANGED <<raw, fetchVars, formVars, totalsVars>>

\* the request is answered, with the payload `raw` when it is answered well
ReloadDoneS ==
  \E i \in 1..Len(loads), out \in Outcomes : LoadEndsS({MergeS(raw)}, i, out)

NextReload == ReloadCallS \/ ReloadDoneS \/ RedirectFires

SpecReload == InitReload /\ [][NextReload]_vars

(***************************************************************************)
(* fetchJson on its own: one call, on anything the network can hand it.    *)
(***************************************************************************)
InitFetch ==
  /\ InitLive
  /\ stored = TRUE
  /\ raw = <<>>
  /\ points = <<>>
  /\ merged = "none"
  /\ response \in Responses
  /\ result = NoResult
  /\ form = EmptyForm
  /\ verdict = "none"
  /\ payload = NoPayload
  /\ answer = NoData
  /\ totals = NoTotals

FetchJsonCall ==
  /\ result = NoResult
  /\ \E r \in FetchJson(response) : result' = r
  /\ EnsureOk(OutcomeOf(response))
  /\ errorMsg' = EnsureOkShows(OutcomeOf(response), errorMsg)
  /\ UNCHANGED <<location, canvas, chart, shown, initPc, tradeLogBg, loads, submitPc,
                 procPc, procData, disabled, last, token, setCash, trades, instances>>
  /\ UNCHANGED <<mergeVars, formVars, response, totalsVars>>

NextFetch == FetchJsonCall

SpecFetch == InitFetch /\ [][NextFetch]_vars

(***************************************************************************)
(* The trade form's submit handler on its own: one submit, on any fields.  *)
(***************************************************************************)
\* the page is ready and idle, the form filled in
InitForm ==
  /\ stored = TRUE
  /\ clears = 0
  /\ redirects = 0
  /\ location = "app"
  /\ canvas = TRUE
  /\ chart = NoChart
  /\ shown = "pfA"
  /\ initPc = "ready"
  /\ tradeLogBg = FALSE
  /\ loads = <<>>
  /\ submitPc = "idle"
  /\ procPc = "idle"
  /\ procData = NoPair
  /\ disabled = FALSE
  /\ last = Step("history", "ok")
  /\ token = TRUE
  /\ setCash = NoSetCash
  /\ errorMsg = "none"
  /\ trades = "tlA"
  /\ instances = 0
  /\ raw = <<>>
  /\ points = <<>>
  /\ merged = "none"
  /\ response = NoResponse
  /\ result = NoResult
  /\ form \in Forms
  /\ verdict = "none"
  /\ payload = NoPayload
  /\ answer = NoData
  /\ totals = NoTotals

\* the submit listener up to its first await: the reason is shown and the
\* handler returns, or POST /api/trade is sent
SubmitForm ==
  /\ Running
  /\ initPc = "ready"
  /\ submitPc = "idle"
  /\ verdict = "none"
  /\ verdict' = Validate(form)
  /\ payload' = IF Validate(form) = "sent" THEN Payload(form) ELSE NoPayload
  /\ submitPc' = IF Validate(form) = "sent" THEN "trade" ELSE "idle"
  /\ last' = Step("submit", IF Validate(form) = "sent" THEN "ok" ELSE "rejected")
  /\ UNCHANGED <<sessionVars, location, canvas, chart, shown, initPc, tradeLogBg,
                 loads, procPc, procData, disabled, token, setCash, viewVars>>
  /\ UNCHANGED <<mergeVars, fetchVars, form, totalsVars>>

NextForm == SubmitForm

SpecForm == InitForm /\ [][NextForm]_vars

(***************************************************************************)
(* The totals on their own: a response with any totals is rendered by      *)
(* loadPortfolio, and handled by handleProcess (build P) once its           *)
(* loadPortfolio is done, on a page that is ready and shows a chart.        *)
(***************************************************************************)
InitTotals ==
  /\ stored = TRUE
  /\ clears = 0
  /\ redirects = 0
  /\ location = "app"
  /\ canvas = TRUE
  /\ chart \in {NoChart, [exists |-> TRUE, data |-> <<[x |-> DayStr(1), y |-> 100]>>]}
  /\ shown = "pfA"
  /\ initPc = "ready"
  /\ tradeLogBg = FALSE
  /\ loads = <<>>
  /\ submitPc = "idle"
  /\ procPc = "idle"
  /\ procData = NoPair
  /\ disabled = FALSE
  /\ last = Step("history", "ok")
  /\ token = TRUE
  /\ setCash = NoSetCash
  /\ errorMsg = "none"
  /\ trades = "tlA"
  /\ instances = IF chart.exists THEN 1 ELSE 0
  /\ raw = <<>>
  /\ points = <<>>
  /\ merged = "none"
  /\ response = NoResponse
  /\ result = NoResult
  /\ form = EmptyForm
  /\ verdict = "none"
  /\ payload = NoPayload
  /\ answer \in Responded
  /\ totals \in {NoTotals, TotalsOf(250)}

\* loadPortfolio after GET /api/portfolio was answered with `answer`
LoadPortfolioTotals ==
  /\ Running
  /\ totals' = RenderTotals(answer, totals)
  /\ last' = Step("totals", "ok")
  /\ UNCHANGED <<sessionVars, location, canvas, chart, shown, initPc, tradeLogBg,
                 loads, submitPc, procPc, procData, disabled, token, setCash,
                 viewVars>>
  /\ UNCHANGED <<mergeVars, fetchVars, formVars, answer>>

\* handleProcess after its loadPortfolio, POST /api/process-portfolio having
\* been answered with `answer`: upsertChartPoint, or loadEquityChart
HandleProcessPair ==
  /\ Running
  /\ Len(loads) < MaxInFlight
  /\ IF HasPair(answer)
     THEN UpsertChartPoint(answer.date, answer.total_equity, errorMsg)
     ELSE /\ loads' = SendHistory("process")
          /\ errorMsg' = HistoryCallShows(TRUE, errorMsg)
          /\ last' = Step("reload", "ok")
          /\ UNCHANGED chart
  /\ UNCHANGED <<sessionVars, location, canvas, shown, initPc, tradeLogBg,
                 submitPc, procPc, procData, disabled, token, setCash, trades,
                 instances>>
  /\ UNCHANGED <<mergeVars, fetchVars, formVars, totalsVars>>

NextTotals == LoadPortfolioTotals \/ HandleProcessPair

SpecTotals == InitTotals /\ [][NextTotals]_vars

(***************************************************************************)
(* Properties of the equity series.                                        *)
(***************************************************************************)
\* the calendar day a point of build P stands for; 0 when its x is no date
CalendarDayP(p) == IF ValidDate(p.x) THEN p.x.d ELSE 0

\* the points of s that carry a date are in strictly increasing order of
\* calendar day (so no day occurs twice)
IncreasingP(s) ==
  \A i, j \in 1..Len(s) :
    i < j /\ ValidDate(s[i].x) /\ ValidDate(s[j].x) => s[i].x.d < s[j].x.d

IncreasingS(s) == \A i, j \in 1..Len(s) : i < j => s[i].x < s[j].x

\* C1: the series a history load produces has strictly increasing dates, so
\* no two of its points fall on the same calendar day (either build).
C1_LoadStrictlyIncreasing ==
  /\ merged = "P" => IncreasingP(points)
  /\ merged = "S" => IncreasingS(points)

\* the rows of payload r that are for calendar day d and carry a finite equity
RowsOfDay(r, d) ==
  {i \in 1..Len(r) : /\ r[i].date.k \in {"day", "stamp"}
                     /\ r[i].date.d = d
                     /\ r[i].equity # NotANumber}

LastOf(S) == CHOOSE i \in S : \A j \in S : j <= i

\* C2: when a history payload holds several rows for one calendar day, the
\* merged series of build P holds one point for that day, with the equity of
\* the row that comes last in the payload.
C2_LastDuplicateWins ==
  merged = "P" =>
    \A d \in Days :
      LET rs == RowsOfDay(raw, d)
          ps == {i \in 1..Len(points) : points[i].x = DayStr(d)}
      IN IF rs = {} THEN ps = {}
         ELSE /\ Cardinality(ps) = 1
              /\ \A i \in ps : points[i].y = raw[LastOf(rs)].equity

\* the payload (day 2, 100), (day 2, 105), (day 1, 100) has been merged to
\* (day 1, 100), (day 2, 105)
C2_DuplicateDayMerged ==
  /\ merged = "P"
  /\ raw = <<[date |-> DayStr(2), equity |-> 100],
             [date |-> DayStr(2), equity |-> 105],
             [date |-> DayStr(1), equity |-> 100]>>
  /\ points = <<[x |-> DayStr(1), y |-> 100], [x |-> DayStr(2), y |-> 105]>>

\* C3: after any sequence of history loads and upsertChartPoint calls the
\* series of build P holds at most one point per calendar day and is sorted
\* ascending by date.
C3_SeriesSortedOnePerDay == chart.exists => IncreasingP(chart.data)

\* what C4 asks of an upsert of (day d, y) that took the series from old to new
UpsertedInto(old, new, d, y) ==
  LET had == \E i \in 1..Len(old) : CalendarDayP(old[i]) = d
      rest(s) == {s[i] : i \in {k \in 1..Len(s) : CalendarDayP(s[k]) # d}}
  IN /\ Len(new) = IF had THEN Len(old) ELSE Len(old) + 1
     /\ \E i \in 1..Len(new) : new[i] = [x |-> DayStr(d), y |-> y]
     /\ rest(new) = rest(old)
     /\ IncreasingP(new)

\* C4: upsertChartPoint with a finite equity on an existing chart replaces
\* the equity of the day's point (the count stays) or inserts a point (the
\* count grows by one), leaves every other point as it was, and the series is
\* sorted by date afterwards.
C4_UpsertReplacesOrInserts ==
  [][\A d \in Days, y \in FiniteEquities :
       chart.exists /\ UpsertCall(d, y) => UpsertedInto(chart.data, chart'.data, d, y)]_vars

\* the process handler is about to call upsertChartPoint with an equity that
\* is not a finite number, and this step makes the call
UpsertOfNonFinite ==
  /\ procPc = "portfolio"
  /\ procData.pair
  /\ procData.equity = NotANumber
  /\ procPc' = "idle"
  /\ location' = "app"

\* C5: upsertChartPoint with an equity that is not a finite number changes
\* nothing: the chart and its series stay as they are and no history request
\* is started.
C5_NonFiniteUpsertIsNoOp ==
  [][UpsertOfNonFinite => chart' = chart /\ loads' = loads /\ canvas' = canvas]_vars

\* an upsert with a non-finite equity has just returned, a chart being shown
C5_NonFiniteUpsertOnChart ==
  /\ last.op = "upsert"
  /\ last.res = "nan"
  /\ chart.exists

HasPoint(c, pt) == c.exists /\ \E i \in 1..Len(c.data) : c.data[i] = pt

\* this step answers a history request of the page
AnswersHistory ==
  /\ location' = "app"
  /\ Len(loads') < Len(loads)
  /\ last'.op = "history"

\* C6: once an upsert of (d, v) has been applied, a history load that was
\* started before it and completes after it does not take the point (d, v) out
\* of the series (build P).  An applied upsert sends no request, so a request
\* answered in the step after it was started before it.
C6_UpsertSurvivesEarlierLoad ==
  [][last.op = "upsert" /\ last.res = "ok" /\ AnswersHistory
       => HasPoint(chart', last.pt)]_vars

\* C7: of two overlapping history loads the later-started one decides the
\* series shown: the result of the earlier-started load is discarded when it
\* arrives after the other's (build S).
C7_LaterStartedLoadWins ==
  [][AnswersHistory /\ last'.overtaken /\ chart.exists => chart' = chart]_vars

\* C8: a history load that fails neither overwrites nor discards the series
\* loaded before it (build S).
C8_FailedLoadKeepsSeries ==
  [][AnswersHistory /\ last'.res \in {"fail", "h401"} => chart' = chart]_vars

\* this step ends a history or a portfolio request by its timeout
TimesOut ==
  \/ \E i \in 1..Len(loads) : LoadEndsS(LiveResultsS, i, "timeout")
  \/ \E pf \in Portfolios : InitPortfolioEnds("timeout", pf)
  \/ \E pf \in Portfolios : SubmitPortfolioEnds("timeout", pf)

\* C9: a request that gets no response within its timeout fails with the
\* timeout error and changes neither the equity series nor the positions and
\* totals shown (build S).
C9_TimeoutChangesNothing ==
  [][TimesOut => /\ FetchJsonError("timeout") = "timedOut"
                 /\ chart' = chart
                 /\ shown' = shown]_vars

\* C10: however many requests are answered 401 in a session, the stored token
\* is cleared once and one redirect to the login page is scheduled (build S).
C10_OneClearOneRedirect == clears <= 1 /\ redirects <= 1

(***************************************************************************)
(* Properties of the session.                                              *)
(***************************************************************************)
\* C11: the stored token is cleared and a redirect to the login page is
\* scheduled only by a step that handles a 401 response; a step that ends in
\* another failure (another status, a timeout, a transport failure, an
\* unparsable body, a rejected form) leaves the token and the timers alone
\* (build S).
C11_Only401TouchesSession ==
  [][/\ (stored' # stored \/ clears' # clears \/ redirects' # redirects)
          => last'.res = "h401"
     /\ last'.res \in {"fail", "rejected"} => UNCHANGED sessionVars]_vars

\* a request has just failed otherwise than by a 401, the token being stored
\* and no redirect scheduled
C11_OtherFailureKeepsSession ==
  /\ last.op = "portfolio"
  /\ last.res = "fail"
  /\ stored
  /\ clears = 0
  /\ redirects = 0

\* this step sends a backend request: a handler moves on to a position where
\* it waits for a response, or a history request is added
SendsRequest ==
  /\ location' = "app"
  /\ \/ initPc' # initPc /\ initPc' \in {"needsCash", "setCash", "portfolio", "ready"}
     \/ submitPc' # submitPc /\ submitPc' \in {"trade", "portfolio", "tradeLog", "equity"}
     \/ procPc' # procPc /\ procPc' \in {"process", "portfolio", "equity"}
     \/ Len(loads') > Len(loads)

\* C12: every request carries the bearer header exactly when a token is
\* stored at the moment it is sent (build S).  The header is sent exactly when
\* `token` is set.
C12_BearerIffTokenStored == [][SendsRequest => (token' <=> stored')]_vars

\* C13: once a 401 has been handled no further backend request is started in
\* the session (build S).
C13_NoRequestAfter401 == [][SendsRequest => clears' = 0]_vars

(***************************************************************************)
(* Properties of fetchJson.                                                *)
(***************************************************************************)
Called == result # NoResult

HttpError == response.transport = "response" /\ ~IsOk(response.status)

\* C14: fetchJson fails with a classified error whenever the response is not
\* ok or its content type does not contain the expected one; an ok response
\* of another content type is rejected and its body is not returned.  Stated
\* here by what it needs at least: on such a response the call throws.
C14_RejectsWrongContentType ==
  /\ Called
  /\ response.transport = "response"
  /\ (~IsOk(response.status) \/ response.ct # "json")
  => result.kind = "thrown"

\* C15: a failed request is reported in the class of its cause: an elapsed
\* deadline as the timeout error, a transport failure as the
\* network-unreachable error, an HTTP error response as its status-derived
\* error, whatever text the server sent.
C15_FailureClassFollowsCause ==
  Called =>
    /\ response.transport = "abort" => result.class = "timeout"
    /\ response.transport = "reject" => result.class = "unreachable"
    /\ HttpError => result.class = "http"

\* the category the spec's table gives a status
TableCategory(status) ==
  CASE status = 400 -> "checkInputs"
    [] status = 401 -> "signInAgain"
    [] status = 403 -> "noAccess"
    [] status = 404 -> "missing"
    [] status = 415 -> "unsupportedMedia"
    [] status = 429 -> "slowDown"
    [] status = 500 -> "checkServerLogs"
    [] status = 502 -> "tryAgainShortly"
    [] status = 503 -> "tryAgainShortly"
    [] status = 504 -> "tryAgainShortly"
    [] OTHER -> "statusOnly"

\* C16: the classifier gives every HTTP error status one category: 400, 401,
\* 403, 404, 415, 429 and 500 each their own, 502, 503 and 504 the same one,
\* every other status the default one.
C16_StatusCategoryTable ==
  Called /\ HttpError => result.ensured.category = TableCategory(response.status)

\* a 503 has been classified like a 502 or a 504
C16_UnavailableClassified ==
  /\ Called
  /\ response.transport = "response"
  /\ response.status = 503
  /\ result.ensured.category = "tryAgainShortly"
  /\ result.ensured.category = StatusCategory(502)
  /\ result.ensured.category # StatusCategory(500)

\* the base C17 asks for: the message field; else the raw text, cut to
\* TextLimit, when there is any; else the fallback
BaseAskedFor(body) ==
  CASE body.shape = "jsonMsg" -> [from |-> "message", words |-> body.words, len |-> body.len]
    [] body.len > 0 -> [from |-> "text", words |-> body.words,
                        len |-> IF body.len > TextLimit THEN TextLimit ELSE body.len]
    [] OTHER -> Fallback

\* C17: the base of the error message is the `message` field of a JSON body;
\* else the raw response text cut to 300 characters when it is not empty,
\* also when the body is JSON without a `message` field; else the caller's
\* fallback.
C17_MessageBaseFallback ==
  Called /\ HttpError => result.ensured.base = BaseAskedFor(response.body)

(***************************************************************************)
(* Properties of the trade form.                                           *)
(***************************************************************************)
Submitted == verdict # "none"

\* the ticker, the price and the shares are as the first check wants them
OtherFieldsValid ==
  /\ \E i \in 1..Len(form.ticker) : form.ticker[i] # " "
  /\ form.price # NotANumber /\ form.price > 0
  /\ form.shares # NotANumber /\ form.shares > 0

\* the stop-loss field holds a finite number >= 0 and no '%'
AbsoluteStopLoss ==
  /\ form.stopLoss.given
  /\ ~form.stopLoss.percent
  /\ ~form.stopLoss.rest
  /\ form.stopLoss.val # NotANumber
  /\ form.stopLoss.val >= 0

\* C18 as stated: a submission with action 'buy' and an absolute stop-loss
\* greater than or equal to the price is rejected with the
\* stop-loss-above-buy-price reason, and no trade request is sent.
C18_BuyStopAtOrAbovePriceRejected ==
  /\ Submitted
  /\ form.action = "buy"
  /\ AbsoluteStopLoss
  /\ form.price # NotANumber
  /\ form.stopLoss.val >= form.price
  => verdict = "stopLossAboveBuy" /\ submitPc = "idle"

\* C18 amended: a submission whose ticker, price and shares pass the first
\* check, with action 'buy' and an absolute stop-loss greater than or equal to
\* the price, is rejected with the stop-loss-above-buy-price reason, and no
\* trade request is sent.
C18_ValidBuyStopAtOrAbovePriceRejected ==
  /\ Submitted
  /\ OtherFieldsValid
  /\ form.action = "buy"
  /\ AbsoluteStopLoss
  /\ form.stopLoss.val >= form.price
  => verdict = "stopLossAboveBuy" /\ submitPc = "idle"

\* a buy at 10 with a stop loss of 10 has been rejected for its stop loss
C18_BuyWithStopAtPriceRejected ==
  /\ form = [ticker |-> <<"A">>, action |-> "buy", price |-> 10, shares |-> 5,
             stopLoss |-> [given |-> TRUE, percent |-> FALSE, val |-> 10,
                           rest |-> FALSE]]
  /\ verdict = "stopLossAboveBuy"
  /\ submitPc = "idle"

C20_OnlyBuyOrSellSent == submitPc = "trade" => form.action \in {"buy", "sell"}

\* a text without white space at either end
IsTrimmed(s) == s = <<>> \/ (s[1] # " " /\ s[Len(s)] # " ")

\* a text without lower-case letters
IsUpperCased(s) == \A i \in 1..Len(s) : s[i] # "a"

\* a and b differ at most in the case of their letters
SameLetters(a, b) ==
  /\ Len(a) = Len(b)
  /\ \A i \in 1..Len(a) : a[i] = b[i] \/ {a[i], b[i]} = {"a", "A"}

\* t is what the field's text s holds between its outer white space, but for
\* the case of its letters
IsFieldText(t, s) ==
  \E i \in 0..Len(s), j \in 0..Len(s) :
    /\ i + Len(t) + j = Len(s)
    /\ \A k \in 1..i : s[k] = " "
    /\ \A k \in 1..j : s[Len(s) + 1 - k] = " "
    /\ SameLetters(t, SubSeq(s, i + 1, i + Len(t)))

\* the ticker field is blank, or the price or the shares field does not hold
\* a finite number > 0
TickerPriceOrSharesInvalid ==
  \/ \A i \in 1..Len(form.ticker) : form.ticker[i] = " "
  \/ form.price = NotANumber \/ form.price <= 0
  \/ form.shares = NotANumber \/ form.shares <= 0

RequiredFieldsValid == OtherFieldsValid /\ form.action # ""

\* the stop-loss text, without its '%' if it has one, is a number that is
\* finite and >= 0
NumericStopLoss ==
  /\ form.stopLoss.val # NotANumber
  /\ form.stopLoss.val >= 0
  /\ ~form.stopLoss.rest

\* C22: with the required fields valid, a stop-loss with a trailing '%' is
\* accepted exactly when its numeric part is a finite number >= 0, whatever
\* the price and the action; a stop-loss that is negative or not a number,
\* with or without '%', is rejected as an invalid stop-loss; the payload holds
\* stop_loss exactly when a non-empty stop-loss was entered and accepted.
C22_StopLossAcceptedIffNumeric ==
  Submitted /\ RequiredFieldsValid =>
    /\ form.stopLoss.given /\ form.stopLoss.percent =>
         (verdict = "sent" <=> NumericStopLoss)
    /\ form.stopLoss.given /\ ~NumericStopLoss => verdict = "invalidStopLoss"
    /\ verdict = "sent" => (payload.hasStopLoss <=> form.stopLoss.given)
    /\ verdict # "sent" => payload = NoPayload

\* a sell at 10 whose stop-loss text starts with 9 and goes on with other
\* characters has been sent, stop_loss holding that text
C22_NumberThenJunkSent ==
  /\ form.action = "sell"
  /\ form.price = 10
  /\ form.stopLoss = [given |-> TRUE, percent |-> FALSE, val |-> 9, rest |-> TRUE]
  /\ verdict = "sent"
  /\ payload.hasStopLoss
  /\ payload.stop_loss = form.stopLoss

\* the fields fail a check of the handler: a blank ticker, no action, a price
\* or share count that is not a finite number > 0, a stop-loss whose number is
\* missing or negative, or for a buy an absolute stop-loss at or above the
\* price
FailsLocalValidation ==
  \/ TickerPriceOrSharesInvalid
  \/ form.action = ""
  \/ /\ form.stopLoss.given
     /\ \/ form.stopLoss.val = NotANumber
        \/ form.stopLoss.val < 0
        \/ /\ ~form.stopLoss.percent
           /\ form.action = "buy"
           /\ form.stopLoss.val >= form.price

\* C23: a submit of fields that fail local validation sends no request and
\* changes no local state: the form keeps its fields, no payload is built,
\* the handler is idle again, no history request is started, and the
\* positions, the chart and the session are as before.
C23_FailedValidationChangesNothing ==
  [][verdict = "none" /\ verdict' # "none" /\ FailsLocalValidation
       => /\ verdict' # "sent"
          /\ UNCHANGED <<form, payload, submitPc, loads, tradeLogBg, shown, chart,
                         canvas, sessionVars, location, procPc>>]_vars

\* a buy with a negative stop-loss has been rejected, the form as it was
C23_NegativeStopLossRejected ==
  /\ form.ticker = <<"A">>
  /\ form.action = "buy"
  /\ form.price = 10
  /\ form.shares = 5
  /\ form.stopLoss = [given |-> TRUE, percent |-> FALSE, val |-> -5, rest |-> FALSE]
  /\ verdict = "invalidStopLoss"
  /\ submitPc = "idle"
  /\ payload = NoPayload

SendsInitHistory ==
  /\ Len(loads') = Len(loads) + 1
  /\ loads'[Len(loads')].owner = "init"

\* this step sends init's trade-log request
SendsInitTradeLog == tradeLogBg' /\ ~tradeLogBg

AmountsInRange == {"0", "250", "10000"}

\* the number such a text denotes
EnteredAmount(input) ==
  CASE input = "0" -> 0
    [] input = "250" -> 250
    [] OTHER -> 10000

\* the k-th answer is the first that is a cancel or an amount in [0, 10000]
IsFirstEnding(answers, k) ==
  /\ k \in 1..Len(answers)
  /\ answers[k] \in AmountsInRange \cup {"cancel"}
  /\ \A j \in 1..(k - 1) : answers[j] \notin AmountsInRange \cup {"cancel"}

FormCleared ==
  /\ form.ticker = <<>>
  /\ form.price = NotANumber
  /\ form.shares = NotANumber
  /\ ~form.stopLoss.given

\* POST /api/trade was answered with a 2xx JSON response
TradeSucceeds(res) ==
  /\ res.transport = "response"
  /\ res.status \in 200..299
  /\ res.ct = "json"
  /\ res.body.shape \in {"jsonMsg", "jsonNoMsg"}

\* POST /api/trade was answered with a status outside 2xx
TradeRejected(res) == res.transport = "response" /\ res.status \notin 200..299

\* this step sends the history request of the submit handler
SendsSubmitHistory ==
  /\ Len(loads') = Len(loads) + 1
  /\ loads'[Len(loads')].owner = "submit"

\* C27: the step that ends a successful trade request clears the form and
\* sends the portfolio request and nothing else; the trade-log request is
\* sent by the step that ends that portfolio request and the equity-history
\* request by the step that ends that trade-log request, however the earlier
\* request ended.
C27_ClearThenRefreshInOrder ==
  [][/\ submitPc = "trade" =>
          \A res \in TradeResponses : \A r \in FetchJson(res) :
            TradeEnds(res, r) /\ TradeSucceeds(res) =>
              /\ FormCleared'
              /\ submitPc' = "portfolio"
              /\ UNCHANGED <<loads, tradeLogBg, shown>>
     /\ submitPc' = "portfolio" /\ submitPc # "portfolio" =>
          /\ submitPc = "trade"
          /\ last'.op = "trade"
          /\ FormCleared'
     /\ submitPc' = "tradeLog" /\ submitPc # "tradeLog" =>
          /\ submitPc = "portfolio"
          /\ last'.op = "portfolio"
     /\ SendsSubmitHistory =>
          /\ submitPc = "tradeLog"
          /\ last'.op = "tradeLog"
     /\ submitPc = "portfolio" /\ submitPc' # "portfolio" /\ location' = "app" =>
          submitPc' = "tradeLog"
     /\ submitPc = "tradeLog" /\ submitPc' # "tradeLog" /\ location' = "app" /\ canvas =>
          /\ submitPc' = "equity"
          /\ SendsSubmitHistory]_vars

\* after a trade the portfolio refresh has failed and the trade-log request
\* is in flight, the form cleared
C27_TradeLogAfterFailedPortfolio ==
  /\ submitPc = "tradeLog"
  /\ last.op = "portfolio"
  /\ last.res = "fail"
  /\ FormCleared

\* C28: when the backend answers the trade request with a status outside
\* 2xx, the message the server sent is the one shown, the form keeps its
\* fields, positions, trade log and equity series stay as displayed and no
\* refresh is started.
C28_RejectedTradeShowsServerMessage ==
  [][submitPc = "trade" =>
       \A res \in TradeResponses : \A r \in FetchJson(res) :
         TradeEnds(res, r) /\ TradeRejected(res) =>
           /\ res.body.shape = "jsonMsg" =>
                /\ r.class = "http"
                /\ r.ensured.base =
                     [from |-> "message", words |-> res.body.words, len |-> res.body.len]
           /\ UNCHANGED <<form, shown, chart, canvas, loads, tradeLogBg>>
           /\ submitPc' = "idle"]_vars

(***************************************************************************)
(* Properties of the process-portfolio action.                             *)
(***************************************************************************)
\* this step is the one in which handleProcess, its loadPortfolio done, looks
\* at the response it holds
AfterProcessReload == procPc = "portfolio" /\ procPc' # "portfolio" /\ location' = "app"

\* C29: after a successful process-portfolio request (build P), a response
\* that carries the as-of date and a finite total equity gets its point into
\* the series and no equity-history request is sent; a response without the
\* pair gets exactly one equity-history request.
C29_UpsertOrOneRefetch ==
  [][AfterProcessReload =>
       IF procData.pair
       THEN procData.equity # NotANumber =>
              /\ UNCHANGED loads
              /\ HasPoint(chart', [x |-> procData.date, y |-> procData.equity])
       ELSE canvas =>
              /\ Len(loads') = Len(loads) + 1
              /\ loads'[Len(loads')].owner = "process"]_vars

EndsInitTradeLog == tradeLogBg /\ ~tradeLogBg' /\ location' = "app"

\* what a successful history answer makes of the chart (build S)
AppliedHistory(c) ==
  \E pts \in LiveResultsS :
    c = IF pts = <<>> THEN NoChart ELSE [exists |-> TRUE, data |-> pts]

\* C31: a failure of one of the sub-fetches that init starts side by side
\* neither rolls back nor blocks a sibling.  The step in which the trade-log
\* load fails leaves the positions and totals shown, the chart and the
\* history request in flight as they are, and a history request that is
\* answered applies its result; the step in which a history load fails leaves
\* the positions and totals, the trade log shown and the trade-log request in
\* flight as they are, and a trade-log request that is answered renders its
\* rows (build S).
C31_SiblingLoadsIndependent ==
  [][/\ EndsInitTradeLog /\ last'.res # "ok"
          => shown' = shown /\ chart' = chart /\ loads' = loads /\ canvas' = canvas
     /\ AnswersHistory /\ last'.res = "ok" => AppliedHistory(chart')
     /\ AnswersHistory /\ last'.res # "ok"
          => shown' = shown /\ trades' = trades /\ tradeLogBg' = tradeLogBg
     /\ EndsInitTradeLog /\ last'.res = "ok" => trades' \in TradeLogs]_vars

\* init's trade-log load has failed (no row is shown, its message is), and
\* the history load started beside it has been answered after that and has put
\* its points into the chart, under the positions of the portfolio load
C31_HistoryAppliedAfterFailedTradeLog ==
  /\ last.op = "history" /\ last.res = "ok"
  /\ chart.exists
  /\ errorMsg = "tradeLog" /\ trades = "none"
  /\ shown = "pfA"
  /\ submitPc = "idle" /\ procPc = "idle"

\* this step ends a request of the start-up with a failure: the needs-cash,
\* set-cash or portfolio request of init, or the trade-log or history request
\* that init started
StartUpRequestFails ==
  /\ location' = "app"
  /\ last'.res \in {"fail", "h401"}
  /\ \/ initPc \in {"needsCash", "setCash", "portfolio"} /\ initPc' # initPc
     \/ EndsInitTradeLog
     \/ \E i \in 1..Len(loads) : \E out \in Outcomes \ {"ok"} :
          loads[i].owner = "init" /\ LoadEndsS(LiveResultsS, i, out)

\* C32: no failure of a request is thrown past init.  Whatever the outcomes
\* of the needs-cash, set-cash, portfolio, trade-log and history requests,
\* a start-up that has begun reaches the ready state, its handlers wired, and
\* each request of the start-up that fails leaves a report of the failure on
\* the page (build S).
C32_StartUpReachesReadyAndReports ==
  /\ [][StartUpRequestFails => errorMsg' # "none"]_vars
  /\ (initPc = "needsCash" ~> initPc = "ready")

RowDay(d) == IF d.date.k \in {"day", "stamp"} THEN d.date.d ELSE 0

\* both parses of a row succeed
RowParses(d) == d.equity # NotANumber /\ RowDay(d) # 0

\* the calendar day of a point of `points`, 0 when its x is no date
PointDay(p) == IF merged = "S" THEN p.x ELSE CalendarDayP(p)

\* C34: the history load drops every row whose equity does not parse to a
\* finite number or whose date does not parse to a calendar day, and keeps
\* every row for which both parse: each point of the series has the day and
\* the equity of a row that parses, and the day of each row that parses has a
\* point (either build).
C34_DropsExactlyUnparsableRows ==
  merged # "none" =>
    /\ \A i \in 1..Len(points) :
         \E j \in 1..Len(raw) :
           /\ RowParses(raw[j])
           /\ PointDay(points[i]) = RowDay(raw[j])
           /\ points[i].y = raw[j].equity
    /\ \A j \in 1..Len(raw) :
         RowParses(raw[j]) =>
           \E i \in 1..Len(points) : PointDay(points[i]) = RowDay(raw[j])

\* C35: the history load is idempotent.  When a load of a payload has ended
\* well and the next load is answered with the same payload, the series after
\* it is the series after the first: the same days with the same values in
\* the same order, and no chart when the first left none (build S).
C35_LoadTwiceSameSeries ==
  [][AnswersHistory /\ last'.res = "ok" /\ merged = "S"
       => /\ chart'.data = points
          /\ chart'.exists <=> points # <<>>]_vars

\* a second load in a row has been answered with a payload that gives two
\* points, and the chart holds the series the first load left
C35_SecondLoadApplied ==
  /\ last.op = "history" /\ last.res = "ok"
  /\ merged = "S"
  /\ chart.exists /\ Len(chart.data) = 2
  /\ chart.data = points
  /\ chart.data[1].x # chart.data[2].x

\* C36: a history load that failed or came back empty can be tried again.
\* Every later call of loadEquityChart by a handler sends the history
\* request, and a history request that is answered well with at least one
\* point leaves the chart holding a series (build P).
C36_RetryAfterFailedLoad ==
  [][/\ CallLoadEquityChart => Len(loads') = Len(loads) + 1
     /\ AnswersHistory /\ last'.res = "ok" /\ canvas'
          => chart'.exists /\ chart'.data # <<>>]_vars

\* this step ends init's loadPortfolio with a failure and starts the
\* trade-log load
InitPortfolioFails ==
  /\ initPc = "portfolio" /\ initPc' = "ready"
  /\ last'.res \in {"fail", "h401"}

\* C37: the error of a failed load stays reported while other loads run.
\* When init's portfolio load fails, a message is visible once the trade-log
\* load has been started, and the trade-log load ending well leaves the
\* message that is visible as it is (build S).
C37_FailedLoadStaysReported ==
  [][/\ InitPortfolioFails => errorMsg' # "none"
     /\ EndsInitTradeLog /\ last'.res = "ok" => errorMsg' = errorMsg]_vars

\* C38: every call of handle enables both process buttons again, however the
\* request, the rendering of its response and the history load after it end,
\* and the buttons are disabled from the click until then: they are disabled
\* exactly while a call of handle is under way, and buttons that are disabled
\* are enabled later on (build S).
C38_ProcessControlsReEnabled ==
  /\ [](location = "app" => (disabled <=> procPc \in {"process", "equity"}))
  /\ (disabled ~> ~disabled)

\* the history load that handle awaited has failed while the one of init is
\* still in flight (no submit has been made), and the buttons are enabled
C38_ReEnabledAfterFailedRefetch ==
  /\ location = "app"
  /\ ~disabled /\ procPc = "idle"
  /\ last.op = "history" /\ last.res = "fail"
  /\ loads = <<[owner |-> "init", overtaken |-> TRUE]>>
  /\ trades = "none" /\ errorMsg = "none"
  /\ shown = "pfA"

\* C39: at any time at most one Chart object that was made for the equity
\* canvas has not been destroyed, whatever the order in which overlapping
\* history loads are answered and upserts are applied.
C39_AtMostOneChartInstance == instances \in {0, 1}

\* an upsert found no chart and called loadEquityChart; the load of init, in
\* flight since before, was answered and made the chart; a second upsert went
\* into that chart while the load the first upsert started is still in flight
C39_UpsertBetweenOverlappingLoads ==
  /\ last.op = "upsert" /\ last.res = "ok"
  /\ loads = <<NewLoad("upsert")>>
  /\ canvas
  /\ chart.exists
  /\ instances = 1

====
